---------------------------- MODULE Spec2Model ----------------------------
(***************************************************************************)
(* The staged curation workflow of datagen.py: convert mode (gen_loop),    *)
(* fix mode (fix, rework), the command prompt, the per-entry temporary     *)
(* directory and the line-delimited record store.                          *)
(*                                                                         *)
(* Text is a sequence of one-character strings, so that str.strip,         *)
(* str.startswith, the "in" substring test, str.splitlines, the regular    *)
(* expression of add_std and the f-string of the task id are computed      *)
(* character by character as Python computes them.                         *)
(***************************************************************************)
EXTENDS Integers, Sequences, FiniteSets, TLC

(***************************************************************************)
(* Bound of the model: how many times the operator edits a workspace file  *)
(* during one run (edits happen while a prompt is blocked).                *)
(***************************************************************************)
MaxEdits == 2

(***************************************************************************)
(* Process-wide constants, datagen.py lines 13-28.                         *)
(***************************************************************************)
BASE_PROMPT_PREFIX ==
  <<"M", "a", "k", "e", " ", "t", "h", "e", " ", "f", "o", "l", "l", "o", "w", "i",
     "n", "g", " ", "f", "u", "n", "c", "t", "i", "o", "n", " ", "g", "e", "n", "e",
     "r", "i", "c", " ", "f", "o", "r", " ">>

CONCEPTS_PROMPT_PREFIX ==
  <<"C", "o", "n", "s", "t", "r", "a", "i", "n", " ", "t", "h", "e", " ", "g", "e",
     "n", "e", "r", "i", "c", " ", "c", "o", "d", "e", " ", "u", "s", "i", "n", "g",
     " ", "C", "+", "+", "2", "0", " ", "C", "o", "n", "c", "e", "p", "t", "s", " ",
     "s", "o", " ", "t", "h", "a", "t", " ">>

SFINAE_PROMPT_PREFIX ==
  <<"C", "o", "n", "s", "t", "r", "a", "i", "n", " ", "t", "h", "e", " ", "g", "e",
     "n", "e", "r", "i", "c", " ", "c", "o", "d", "e", " ", "u", "s", "i", "n", "g",
     " ", "C", "+", "+", "1", "7", " ", "S", "F", "I", "N", "A", "E", " ", "s", "o",
     " ", "t", "h", "a", "t", " ">>

CmdSkip ==
  <<"s", "k", "i", "p">>

CmdExit ==
  <<"e", "x", "i", "t">>

CmdContinue ==
  <<>>

\* COMMANDS: list[str] = ["skip", "exit", ""]
COMMANDS ==
  {CmdSkip, CmdExit, CmdContinue}

EMPTY_MAIN ==
  <<"i", "n", "t", " ", "m", "a", "i", "n", "(", ")", " ", "{", "}">>

\* The vocabulary of STD_NAME_RE, in the order of its alternation.
WordString ==
  <<"s", "t", "r", "i", "n", "g">>

WordVector ==
  <<"v", "e", "c", "t", "o", "r">>

WordMap ==
  <<"m", "a", "p">>

WordAbs ==
  <<"a", "b", "s">>

StdVocabulary ==
  {WordString, WordVector, WordMap, WordAbs}

StdPrefix ==
  <<"s", "t", "d", ":", ":">>

\* The characters \w matches (ASCII letters, digits, underscore); "_" is
\* named a second time in the class [^\w_] of the expression.
WordChars ==
  {"a", "b", "c", "d", "e", "f", "g", "h", "i", "j", "k", "l", "m", "n", "o", "p",
   "q", "r", "s", "t", "u", "v", "w", "x", "y", "z",
   "A", "B", "C", "D", "E", "F", "G", "H", "I", "J", "K", "L", "M", "N", "O", "P",
   "Q", "R", "S", "T", "U", "V", "W", "X", "Y", "Z",
   "0", "1", "2", "3", "4", "5", "6", "7", "8", "9", "_"}

UsingNamespace ==
  <<"u", "s", "i", "n", "g", " ", "n", "a", "m", "e", "s", "p", "a", "c", "e">>

HashInclude ==
  <<"#", "i", "n", "c", "l", "u", "d", "e">>

BoostAny ==
  <<"b", "o", "o", "s", "t", "/", "a", "n", "y", ".", "h", "p", "p">>

OpensslMd5 ==
  <<"o", "p", "e", "n", "s", "s", "l", "/", "m", "d", "5", ".", "h">>

\* The headers whose presence filters an entry out (gen_loop, line 61).
NonStdHeaders ==
  {BoostAny, OpensslMd5}

(***************************************************************************)
(* Python string operations, on sequences of characters.                   *)
(***************************************************************************)

\* The characters str.strip() removes that a line read by input() can hold.
Whitespace ==
  {" ", "\t", "\r", "\f"}

\* The line boundaries of str.splitlines(); "\r\n" counts as one boundary.
LineBreaks ==
  {"\n", "\r", "\f"}

RECURSIVE LStrip(_)
LStrip(s) ==
  IF s # <<>> /\ Head(s) \in Whitespace THEN LStrip(Tail(s)) ELSE s

RECURSIVE RStrip(_)
RStrip(s) ==
  IF s # <<>> /\ s[Len(s)] \in Whitespace
    THEN RStrip(SubSeq(s, 1, Len(s) - 1))
    ELSE s

\* str.strip()
Strip(s) ==
  RStrip(LStrip(s))

\* str.startswith(prefix)
StartsWith(s, prefix) ==
  /\ Len(prefix) <= Len(s)
  /\ SubSeq(s, 1, Len(prefix)) = prefix

\* sub in s
Contains(s, sub) ==
  \E i \in 1..(Len(s) - Len(sub) + 1) : SubSeq(s, i, i + Len(sub) - 1) = sub

RECURSIVE SplitFrom(_, _, _)
SplitFrom(s, p, cur) ==
  IF p > Len(s)
    THEN IF cur = <<>> THEN <<>> ELSE <<cur>>
    ELSE IF s[p] = "\r" /\ p < Len(s) /\ s[p + 1] = "\n"
      THEN <<cur>> \o SplitFrom(s, p + 2, <<>>)
      ELSE IF s[p] \in LineBreaks
        THEN <<cur>> \o SplitFrom(s, p + 1, <<>>)
        ELSE SplitFrom(s, p + 1, Append(cur, s[p]))

\* str.splitlines()
SplitLines(s) ==
  SplitFrom(s, 1, <<>>)

RECURSIVE Join(_, _)
\* sep.join(lines)
Join(sep, lines) ==
  IF lines = <<>> THEN <<>>
  ELSE IF Len(lines) = 1 THEN lines[1]
  ELSE lines[1] \o sep \o Join(sep, Tail(lines))

DigitChar(d) ==
  <<"0", "1", "2", "3", "4", "5", "6", "7", "8", "9">>[d + 1]

RECURSIVE NatStr(_)
NatStr(n) ==
  IF n < 10 THEN <<DigitChar(n)>>
  ELSE Append(NatStr(n \div 10), DigitChar(n % 10))

\* f"{idx}" for an int
IntStr(n) ==
  IF n < 0 THEN <<"-">> \o NatStr(0 - n) ELSE NatStr(n)

(***************************************************************************)
(* SourceNormalizer: strip_code and add_std.                               *)
(***************************************************************************)

\* Mutation of KeepLine: the line is stripped before it is tested.
KeepLineStripped(c) ==
  ~StartsWith(Strip(c), UsingNamespace) /\ ~StartsWith(Strip(c), HashInclude)

KeepLine(c) ==
  ~StartsWith(c, UsingNamespace) /\ ~StartsWith(c, HashInclude)

strip_code(code) ==
  Join(<<"\n">>, SelectSeq(SplitLines(code), KeepLine))

\* The characters [^\w_] matches.
IsNonWord(c) ==
  c \notin WordChars

\* The words (string|vector|map|abs)([^\w_]) matches with the word starting
\* at position p: the word is there and a non-word character follows it.
WordsAt(code, p) ==
  {w \in StdVocabulary :
     /\ p + Len(w) <= Len(code)
     /\ SubSeq(code, p, p + Len(w) - 1) = w
     /\ IsNonWord(code[p + Len(w)])}

RECURSIVE SubFrom(_, _)
\* re.sub scanning from position p: the leftmost match is replaced and the
\* scan resumes after the whole match, its closing character included.
SubFrom(code, p) ==
  IF p > Len(code) THEN <<>>
  ELSE
    LET after == IF IsNonWord(code[p]) THEN WordsAt(code, p + 1) ELSE {}
        start == IF p = 1 THEN WordsAt(code, p) ELSE {}
    IN  IF after # {}
          THEN LET w == CHOOSE x \in after : TRUE
               IN  <<code[p]>> \o StdPrefix \o w \o <<code[p + 1 + Len(w)]>>
                     \o SubFrom(code, p + Len(w) + 2)
          ELSE IF start # {}
            THEN LET w == CHOOSE x \in start : TRUE
                 IN  StdPrefix \o w \o <<code[p + Len(w)]>>
                       \o SubFrom(code, p + Len(w) + 1)
            ELSE <<code[p]>> \o SubFrom(code, p + 1)

add_std(code) ==
  SubFrom(code, 1)

(***************************************************************************)
(* The external formatter, clang-format -i -style=Google <path>.  The      *)
(* workflow uses only the call's success or failure and the fact that the  *)
(* file is rewritten in normal form; the normal form is modelled by one    *)
(* rule of the formatter, runs of spaces collapse to one space.            *)
(***************************************************************************)
RECURSIVE Format(_)
Format(text) ==
  IF Len(text) < 2 THEN text
  ELSE IF text[1] = " " /\ text[2] = " " THEN Format(Tail(text))
  ELSE <<text[1]>> \o Format(Tail(text))

(***************************************************************************)
(* The store file: one JSON object per line.  A line is the sequence of    *)
(* its key/value pairs in the order they stand in the file.                *)
(***************************************************************************)

\* The keys of a record in the order sorted() gives them (sort_keys=True);
\* "note" is a key a store may hold that the workflow does not know.
SortedKeys ==
  <<"base_canonical_solution", "base_prompt", "concepts_canonical_solution",
    "concepts_prompt", "invalids", "note", "sfinae_canonical_solution",
    "sfinae_prompt", "starter_code", "task_id", "tests">>

\* json.loads(line): a dict; of a repeated key the last value stands.
loads(line) ==
  [k \in {line[i][1] : i \in DOMAIN line} |->
     line[CHOOSE i \in DOMAIN line :
            /\ line[i][1] = k
            /\ \A m \in DOMAIN line : line[m][1] = k => m <= i][2]]

RECURSIVE DumpKeys(_, _)
DumpKeys(j, keys) ==
  IF keys = <<>> THEN <<>>
  ELSE IF Head(keys) \in DOMAIN j
    THEN <<<<Head(keys), j[Head(keys)]>>>> \o DumpKeys(j, Tail(keys))
    ELSE DumpKeys(j, Tail(keys))

\* Mutation of dumps: only the ten fields of the workflow are written.
DumpsKnownFields(j) ==
  DumpKeys(j, SelectSeq(SortedKeys, LAMBDA k : k # "note"))

\* json.dumps(j, sort_keys=True): the line of j, keys in sorted order.
dumps(j) ==
  DumpKeys(j, SortedKeys)

(***************************************************************************)
(* The corpus (external, read-only): three entries.  Entry 1 names a       *)
(* disallowed header in its test only; entries 0 and 2 carry directives    *)
(* that strip_code removes and names that add_std qualifies.               *)
(***************************************************************************)
Decl0 ==
  <<"#", "i", "n", "c", "l", "u", "d", "e", "<", "m", "a", "p", ">", "\n", "m", "a",
     "p", " ", "f", "(">>

Sol0 ==
  <<"a", "b", "s", " ", "x", ")", ";", "\n">>

Test0 ==
  <<"i", "n", "t", " ", " ", "t", "0", ";">>

Decl1 ==
  <<"i", "n", "t", " ", "h", "(">>

Sol1 ==
  <<")", "{", "}">>

Test1 ==
  <<"#", "i", "n", "c", "l", "u", "d", "e", "<", "o", "p", "e", "n", "s", "s", "l",
     "/", "m", "d", "5", ".", "h", ">">>

Decl2 ==
  <<"u", "s", "i", "n", "g", " ", "n", "a", "m", "e", "s", "p", "a", "c", "e", " ",
     "s", "t", "d", ";", "\n", "i", "n", "t", " ", "g">>

Sol2 ==
  <<"(", ")", "{", "}">>

Test2 ==
  <<"i", "n", "t", " ", "t", "2", ";">>

hep ==
  <<[declaration |-> Decl0, canonical_solution |-> Sol0, test |-> Test0],
    [declaration |-> Decl1, canonical_solution |-> Sol1, test |-> Test1],
    [declaration |-> Decl2, canonical_solution |-> Sol2, test |-> Test2]>>

\* len(hep)
HepLen ==
  Len(hep)

\* The indices hep[idx] accepts: a negative index counts from the end, an
\* index outside -len .. len-1 raises IndexError.
ValidIndex ==
  (0 - HepLen)..(HepLen - 1)

\* hep[idx]
HepAt(i) ==
  hep[(i % HepLen) + 1]

(***************************************************************************)
(* What the operator and the command line supply.                          *)
(***************************************************************************)
HepPrefix ==
  <<"H", "E", "P", "/">>

\* f"HEP/{idx}"
TaskId(i) ==
  HepPrefix \o IntStr(i)

InSkipPadded ==
  <<" ", "s", "k", "i", "p">>

InExitPadded ==
  <<"e", "x", "i", "t", "\t">>

InBlank ==
  <<" ">>

InOther ==
  <<"q", "u", "i", "t">>

\* The lines the operator types at a prompt.
Inputs ==
  {CmdContinue, CmdSkip, CmdExit, InSkipPadded, InExitPadded, InBlank, InOther}

EditText ==
  <<"T", " ", " ", "x", ";">>

\* The contents the operator saves into a workspace file.
EditTexts ==
  {EditText}

\* convert: the <<start, count>> arguments (argparse type=int): ranges inside
\* the corpus, past its end, empty, of negative count and of negative start.
ConvertArgs ==
  {<<0, 4>>, <<1, 2>>, <<2, 1>>, <<3, 1>>, <<5, 2>>, <<0, 0>>, <<1, 0 - 1>>,
   <<0 - 1, 2>>, <<0 - 4, 2>>}

StoredPrompt ==
  <<"p">>

StoredCodeA ==
  <<"i", "n", "t", " ", " ", "a", ";">>

StoredCodeB ==
  <<"i", "n", "t", " ", "b", ";">>

StoredNote ==
  <<"n">>

\* A record of the store with the ten fields of the workflow.
StoredRecord(tid, code) ==
  [task_id |-> tid,
   base_prompt |-> StoredPrompt,
   sfinae_prompt |-> StoredPrompt,
   concepts_prompt |-> StoredPrompt,
   starter_code |-> code,
   base_canonical_solution |-> code,
   sfinae_canonical_solution |-> code,
   concepts_canonical_solution |-> code,
   tests |-> code,
   invalids |-> EMPTY_MAIN]

\* The line of a record as this program writes it.
SortedLine(tid, code) ==
  dumps(StoredRecord(tid, code))

\* The line of the same record written by another tool: task_id first and a
\* key more than the ten.
ForeignLine(tid, code) ==
  <<<<"task_id", tid>>, <<"note", StoredNote>>>>
    \o SelectSeq(SortedLine(tid, code), LAMBDA kv : kv[1] # "task_id")

\* The stores a run starts from: empty, two records with different ids, and
\* three records of which two share a task_id (nothing enforces uniqueness).
StoreUnique ==
  <<SortedLine(TaskId(0), StoredCodeA), ForeignLine(TaskId(2), StoredCodeB)>>

StoreRepeated ==
  <<SortedLine(TaskId(0), StoredCodeA), ForeignLine(TaskId(2), StoredCodeB),
    SortedLine(TaskId(0), StoredCodeB)>>

ConvertStores ==
  {<<>>, StoreUnique}

FixStores ==
  {<<>>, StoreUnique, StoreRepeated}

\* fix: the task_id argument; HEP/7 is in none of the stores.
Keys ==
  {TaskId(0), TaskId(2), TaskId(7)}

(***************************************************************************)
(* State.                                                                  *)
(***************************************************************************)
VARIABLES
  mode,         \* args.mode: "convert" or "fix"
  start,        \* args.start
  count,        \* args.count
  key,          \* args.task_id
  store,        \* the store file: its lines, in order
  pc,           \* where the process is: "start", "loop", "fixup", "base",
                \* "variants", "scan", "rework", "rewrite", "done"
  idx,          \* gen_loop: the loop variable
  typed,        \* the last line input() returned
  resp,         \* the same line after strip()
  live,         \* how many temporary directories exist
  ws,           \* the files of the current temporary directory: name -> text
  js,           \* fix: the records loaded so far
  error,        \* the exception that ended the process, "none" if none
  edits,        \* how many times the operator has saved a workspace file
  store0,       \* history: the store file when the process started
  entry_store,  \* history: the store file when the current workspace was made
  trail,        \* history: the accepted commands, filterings and errors so
                \* far, each with the entry and the stage it happened at and,
                \* for the command that completes an entry, the workspace
                \* files as they were when the directory was removed
  call          \* a call of strip_code or add_std on its own: the function,
                \* its argument code, whether it has returned, and what
                \* it returned

vars ==
  <<mode, start, count, key, store, pc, idx, typed, resp, live, ws, js, error,
    edits, store0, entry_store, trail, call>>

\* No function is called on its own: the state of call in a run of main.
NoCall ==
  [fn |-> "none", code |-> <<>>, returned |-> FALSE, ret |-> <<>>]

\* No file: what a directory holds that was just made or was removed.
NoFiles ==
  <<>>

\* resp before the first input(): a text no stripped line equals.
NoResp ==
  <<"\n">>

PromptPcs ==
  {"fixup", "base", "variants", "rework"}

\* The exceptions a stage can die of: the formatter's non-zero exit
\* (subprocess.check_call) and a failed open, read, write or mkdtemp.
StageErrors ==
  {"CalledProcessError", "OSError"}

\* sys.exit(main()): main returns 0; an uncaught exception exits with 1.
ExitCode ==
  IF error = "none" THEN 0 ELSE 1

Min(a, b) ==
  IF a < b THEN a ELSE b

\* range(start, min(len(hep), start + count)): its end
Stop ==
  Min(HepLen, start + count)

\* write(path, content)
Write(files, path, content) ==
  [p \in (DOMAIN files) \cup {path} |-> IF p = path THEN content ELSE files[p]]

\* subprocess.check_call(["clang-format", "-i", "-style=Google", path])
FormatFile(files, path) ==
  [files EXCEPT ![path] = Format(files[path])]

RECURSIVE FormatFiles(_, _)
FormatFiles(files, paths) ==
  IF paths = <<>> THEN files
  ELSE FormatFiles(FormatFile(files, Head(paths)), Tail(paths))

\* tempfile.TemporaryDirectory().__enter__: one directory more
TempDirEnter(n) ==
  n + 1

\* Mutation of TempDirExit: the directory is left behind (mkdtemp without
\* cleanup).
TempDirKept(n) ==
  n

\* tempfile.TemporaryDirectory().__exit__: the directory and its files are
\* removed, however the with block is left
TempDirExit(n) ==
  n - 1

Init ==
  /\ mode \in {"convert", "fix"}
  /\ \/ /\ mode = "convert"
        /\ \E args \in ConvertArgs :
             /\ start = args[1]
             /\ count = args[2]
        /\ key = <<>>
        /\ store \in ConvertStores
        /\ pc = "start"
     \/ /\ mode = "fix"
        /\ start = 0
        /\ count = 0
        /\ key \in Keys
        /\ store \in FixStores
        /\ pc = "scan"
  /\ idx = start
  /\ typed = NoResp
  /\ resp = NoResp
  /\ live = 0
  /\ ws = NoFiles
  /\ js = <<>>
  /\ error = "none"
  /\ edits = 0
  /\ store0 = store
  /\ entry_store = store
  /\ trail = <<>>
  /\ call = NoCall

(***************************************************************************)
(* Steps shared by the stages.                                             *)
(***************************************************************************)

\* The position of the entry in progress: the corpus index or the store line.
Current ==
  IF mode = "convert" THEN idx ELSE Len(js) + 1

\* One element of the history.
Event(how, files) ==
  [at |-> Current, stage |-> pc, how |-> how, files |-> files]

\* Mutation of Raise: the exception is caught inside the loop and the entry
\* is taken up again (try/except around the body of the for loop).
RaiseAndRetry(err, n) ==
  /\ error' = err
  /\ pc' = "loop"
  /\ live' = n
  /\ ws' = NoFiles
  /\ trail' = Append(trail, Event("error", NoFiles))

\* An uncaught exception: the with block, if one is open, is left and its
\* directory removed, and the process ends.  n is the number of directories
\* the exception leaves behind.
Raise(err, n) ==
  /\ error' = err
  /\ pc' = "done"
  /\ live' = n
  /\ ws' = NoFiles
  /\ trail' = Append(trail, Event("error", NoFiles))

\* Mutation of Reprompts: "" is missing from COMMANDS.
RepromptsOnEmpty(r) ==
  r \notin {CmdSkip, CmdExit}

\* resp not in COMMANDS: the while loop of the prompt runs again
Reprompts(r) ==
  r \notin COMMANDS

\* The operator saves a workspace file while a prompt is blocked.
OperatorEdit ==
  /\ pc \in PromptPcs
  /\ edits < MaxEdits
  /\ \E path \in DOMAIN ws, text \in EditTexts :
       /\ ws[path] # text
       /\ ws' = [ws EXCEPT ![path] = text]
  /\ edits' = edits + 1
  /\ UNCHANGED <<mode, start, count, key, store, pc, idx, typed, resp, live, js,
                 error, store0, entry_store, trail>>
  /\ UNCHANGED call

\* input() returns a line that is no command after strip(): prompt again.
PromptInvalid ==
  /\ pc \in PromptPcs
  /\ \E inp \in Inputs :
       /\ Reprompts(Strip(inp))
       /\ typed' = inp
       /\ resp' = Strip(inp)
  /\ UNCHANGED <<mode, start, count, key, store, pc, idx, live, ws, js, error,
                 edits, store0, entry_store, trail>>
  /\ UNCHANGED call

\* input() raises EOFError: the input stream has ended.
PromptEOF ==
  /\ pc \in PromptPcs
  /\ Raise("EOFError", TempDirExit(live))
  /\ UNCHANGED <<mode, start, count, key, store, idx, typed, resp, js, edits,
                 store0, entry_store>>
  /\ UNCHANGED call

(***************************************************************************)
(* RecordBuilder: the dict built from the nine artifact files.             *)
(***************************************************************************)
ReadRecord(tid, files) ==
  [task_id |-> tid,
   base_prompt |-> files["base_prompt.txt"],
   sfinae_prompt |-> files["sfinae_prompt.txt"],
   concepts_prompt |-> files["concepts_prompt.txt"],
   starter_code |-> files["starter.cpp"],
   base_canonical_solution |-> files["base.cpp"],
   sfinae_canonical_solution |-> files["sfinae.cpp"],
   concepts_canonical_solution |-> files["concepts.cpp"],
   tests |-> files["tests.cpp"],
   invalids |-> files["invalids.cpp"]]

(***************************************************************************)
(* Convert mode: gen_loop.                                                 *)
(***************************************************************************)

\* doc["declaration"] + doc["canonical_solution"]
EntryCode(doc) ==
  doc.declaration \o doc.canonical_solution

\* Mutation of HasNonStdHeader: only the code is searched, not the test.
HasNonStdHeaderInCode(doc) ==
  \E s \in NonStdHeaders : Contains(EntryCode(doc), s)

\* any(s in code or s in test for s in ["boost/any.hpp", "openssl/md5.h"])
HasNonStdHeader(doc) ==
  \E s \in NonStdHeaders : Contains(EntryCode(doc), s) \/ Contains(doc.test, s)

\* Mutation of NextIndex: the loop steps over an index.
NextIndexStepsOver(i) ==
  i + 2

\* "continue" inside the for loop: the index the loop takes up next
NextIndex(i) ==
  i + 1

\* Stage 1 as the prompt finds it: the normalized source, formatted.
FixupFiles(doc) ==
  FormatFile(Write(NoFiles, "starter.cpp", add_std(strip_code(EntryCode(doc)))),
             "starter.cpp")

\* Stage 2 as the prompt finds it, from the files stage 1 was left with.
BaseFiles(files) ==
  LET formatted == FormatFile(files, "starter.cpp")
      starter_code == formatted["starter.cpp"]
  IN  Write(Write(formatted, "base.cpp", starter_code),
            "base_prompt.txt", BASE_PROMPT_PREFIX)

\* Mutation of VariantsFiles: the variants are seeded with the starter
\* code, not with the base.
VariantsFilesFromStarter(files, test) ==
  LET formatted == FormatFile(files, "base.cpp")
      starter_code == formatted["starter.cpp"]
      f1 == Write(formatted, "sfinae.cpp", starter_code)
      f2 == Write(f1, "concepts.cpp", starter_code)
      f3 == Write(f2, "sfinae_prompt.txt", SFINAE_PROMPT_PREFIX)
      f4 == Write(f3, "concepts_prompt.txt", CONCEPTS_PROMPT_PREFIX)
      f5 == Write(f4, "tests.cpp", test)
      f6 == Write(f5, "invalids.cpp", EMPTY_MAIN)
  IN  FormatFiles(f6, <<"tests.cpp", "invalids.cpp">>)

\* Stage 3 as the prompt finds it, from the files stage 2 was left with.
VariantsFiles(files, test) ==
  LET formatted == FormatFile(files, "base.cpp")
      base_code == formatted["base.cpp"]
      f1 == Write(formatted, "sfinae.cpp", base_code)
      f2 == Write(f1, "concepts.cpp", base_code)
      f3 == Write(f2, "sfinae_prompt.txt", SFINAE_PROMPT_PREFIX)
      f4 == Write(f3, "concepts_prompt.txt", CONCEPTS_PROMPT_PREFIX)
      f5 == Write(f4, "tests.cpp", test)
      f6 == Write(f5, "invalids.cpp", EMPTY_MAIN)
  IN  FormatFiles(f6, <<"tests.cpp", "invalids.cpp">>)

\* Lines 154-165: the files as the last four formatter calls leave them.
FinalFiles(files) ==
  FormatFiles(files, <<"sfinae.cpp", "concepts.cpp", "tests.cpp",
                       "invalids.cpp">>)

\* Mutation of FinalRecord: the record is read before the last four
\* formatter calls.
FinalRecordBeforeFormat(i, files) ==
  ReadRecord(TaskId(i), files)

\* gdoc: the record of entry i, read from the files stage 3 was left with.
FinalRecord(i, files) ==
  ReadRecord(TaskId(i), FinalFiles(files))

\* Mutation of AppendLine: the line is written at the start of the file
\* and the file is cut after it.
AppendLineAtStart(lines, gdoc) ==
  <<dumps(gdoc)>>

\* print(json.dumps(gdoc, sort_keys=True), file=out, flush=True)
AppendLine(lines, gdoc) ==
  Append(lines, dumps(gdoc))

\* Mutation of OpenAppend: the file is opened with "w".
OpenTruncate(lines) ==
  <<>>

\* open(output, "a"): the lines the file holds once it is open for appending
OpenAppend(lines) ==
  lines

\* convert, lines 282-287: the corpus is loaded, the output file is opened
\* and gen_loop is entered.
ConvertOpen ==
  /\ mode = "convert" /\ pc = "start"
  /\ store' = OpenAppend(store)
  /\ pc' = "loop"
  /\ UNCHANGED <<mode, start, count, key, idx, typed, resp, live, ws, js, error,
                 edits, store0, entry_store, trail>>
  /\ UNCHANGED call

\* The range is exhausted: gen_loop returns, the file is closed, main returns 0.
GenLoopReturn ==
  /\ mode = "convert" /\ pc = "loop"
  /\ idx >= Stop
  /\ pc' = "done"
  /\ UNCHANGED <<mode, start, count, key, store, idx, typed, resp, live, ws, js,
                 error, edits, store0, entry_store, trail>>
  /\ UNCHANGED call

\* hep[idx] with idx below -len(hep)
GenLoopIndexError ==
  /\ mode = "convert" /\ pc = "loop"
  /\ idx < Stop
  /\ idx \notin ValidIndex
  /\ Raise("IndexError", live)
  /\ UNCHANGED <<mode, start, count, key, store, idx, typed, resp, js, edits,
                 store0, entry_store>>
  /\ UNCHANGED call

\* The entry names a disallowed header: "continue" before any directory is made.
GenLoopFilter ==
  /\ mode = "convert" /\ pc = "loop"
  /\ idx < Stop
  /\ idx \in ValidIndex
  /\ HasNonStdHeader(HepAt(idx))
  /\ idx' = NextIndex(idx)
  /\ trail' = Append(trail, Event("filtered", NoFiles))
  /\ UNCHANGED <<mode, start, count, key, store, pc, typed, resp, live, ws, js,
                 error, edits, store0, entry_store>>
  /\ UNCHANGED call

\* Lines 66-87: the directory is made, the starter is written and formatted,
\* and the first prompt is reached; or one of these calls fails.
FixupStage ==
  /\ mode = "convert" /\ pc = "loop"
  /\ idx < Stop
  /\ idx \in ValidIndex
  /\ ~HasNonStdHeader(HepAt(idx))
  /\ entry_store' = store
  /\ \/ /\ live' = TempDirEnter(live)
        /\ ws' = FixupFiles(HepAt(idx))
        /\ pc' = "fixup"
        /\ UNCHANGED <<error, trail>>
     \/ \E err \in StageErrors :
          Raise(err, TempDirExit(TempDirEnter(live)))
  /\ UNCHANGED <<mode, start, count, key, store, idx, typed, resp, js, edits,
                 store0>>
  /\ UNCHANGED call

\* case "exit": return.  The with block is left, gen_loop and main return.
PromptExit ==
  /\ mode = "convert" /\ pc \in PromptPcs
  /\ \E inp \in Inputs :
       /\ Strip(inp) = CmdExit
       /\ typed' = inp
       /\ resp' = Strip(inp)
       /\ trail' = Append(trail, Event("exit", NoFiles))
  /\ live' = TempDirExit(live)
  /\ ws' = NoFiles
  /\ pc' = "done"
  /\ UNCHANGED <<mode, start, count, key, store, idx, js, error, edits, store0,
                 entry_store>>
  /\ UNCHANGED call

\* case "skip": continue.  The with block is left, the loop goes on.
PromptSkip ==
  /\ mode = "convert" /\ pc \in PromptPcs
  /\ \E inp \in Inputs :
       /\ Strip(inp) = CmdSkip
       /\ typed' = inp
       /\ resp' = Strip(inp)
       /\ trail' = Append(trail, Event("skip", NoFiles))
  /\ live' = TempDirExit(live)
  /\ ws' = NoFiles
  /\ pc' = "loop"
  /\ idx' = NextIndex(idx)
  /\ UNCHANGED <<mode, start, count, key, store, js, error, edits, store0,
                 entry_store>>
  /\ UNCHANGED call

\* Lines 98-107: the starter is accepted and the base stage is seeded.
FixupContinue ==
  /\ mode = "convert" /\ pc = "fixup"
  /\ \E inp \in Inputs :
       /\ Strip(inp) = CmdContinue
       /\ typed' = inp
       /\ resp' = Strip(inp)
       /\ \/ /\ ws' = BaseFiles(ws)
             /\ pc' = "base"
             /\ trail' = Append(trail, Event("continue", NoFiles))
             /\ UNCHANGED <<live, error>>
          \/ \E err \in StageErrors : Raise(err, TempDirExit(live))
  /\ UNCHANGED <<mode, start, count, key, store, idx, js, edits, store0,
                 entry_store>>
  /\ UNCHANGED call

\* Lines 118-144: the base is accepted and the variants stage is seeded.
BaseContinue ==
  /\ mode = "convert" /\ pc = "base"
  /\ \E inp \in Inputs :
       /\ Strip(inp) = CmdContinue
       /\ typed' = inp
       /\ resp' = Strip(inp)
       /\ \/ /\ ws' = VariantsFiles(ws, HepAt(idx).test)
             /\ pc' = "variants"
             /\ trail' = Append(trail, Event("continue", NoFiles))
             /\ UNCHANGED <<live, error>>
          \/ \E err \in StageErrors : Raise(err, TempDirExit(live))
  /\ UNCHANGED <<mode, start, count, key, store, idx, js, edits, store0,
                 entry_store>>
  /\ UNCHANGED call

\* Lines 154-180: the variants are accepted, the four files are formatted,
\* the record is built and appended, the with block is left and the loop
\* goes on.
VariantsContinue ==
  /\ mode = "convert" /\ pc = "variants"
  /\ \E inp \in Inputs :
       /\ Strip(inp) = CmdContinue
       /\ typed' = inp
       /\ resp' = Strip(inp)
       /\ \/ /\ store' = AppendLine(store, FinalRecord(idx, ws))
             /\ live' = TempDirExit(live)
             /\ ws' = NoFiles
             /\ pc' = "loop"
             /\ idx' = NextIndex(idx)
             /\ trail' = Append(trail, Event("continue", FinalFiles(ws)))
             /\ UNCHANGED error
          \/ /\ \E err \in StageErrors : Raise(err, TempDirExit(live))
             /\ UNCHANGED <<store, idx>>
  /\ UNCHANGED <<mode, start, count, key, js, edits, store0, entry_store>>
  /\ UNCHANGED call

(***************************************************************************)
(* Fix mode: fix and rework.                                               *)
(***************************************************************************)

\* The six code files both formatting passes of rework go through.
ReworkFormatted ==
  <<"starter.cpp", "base.cpp", "sfinae.cpp", "concepts.cpp", "tests.cpp",
    "invalids.cpp">>

\* The line the scan is at, loaded: j = json.loads(line)
ScannedRecord ==
  loads(store[Len(js) + 1])

\* j["task_id"] == task_id
Matches(j, task_id) ==
  j["task_id"] = task_id

\* Lines 185-215: the nine files written from j, the six code files formatted.
ReworkFiles(j) ==
  LET f1 == Write(NoFiles, "base_prompt.txt", j["base_prompt"])
      f2 == Write(f1, "sfinae_prompt.txt", j["sfinae_prompt"])
      f3 == Write(f2, "concepts_prompt.txt", j["concepts_prompt"])
      f4 == Write(f3, "starter.cpp", j["starter_code"])
      f5 == Write(f4, "base.cpp", j["base_canonical_solution"])
      f6 == Write(f5, "sfinae.cpp", j["sfinae_canonical_solution"])
      f7 == Write(f6, "concepts.cpp", j["concepts_canonical_solution"])
      f8 == Write(f7, "tests.cpp", j["tests"])
      f9 == Write(f8, "invalids.cpp", j["invalids"])
  IN  FormatFiles(f9, ReworkFormatted)

\* Mutation of ReworkedRecord: the files are read before the second
\* formatting pass.
ReworkedUnformatted(j, files) ==
  ReadRecord(j["task_id"], files)

\* Lines 236-257: the dict rework returns after "continue".
ReworkedRecord(j, files) ==
  ReadRecord(j["task_id"], FormatFiles(files, ReworkFormatted))

\* Mutation of ReworkAbandoned: the files are read back as after "continue".
ReworkAbandonedFromFiles(j, files) ==
  ReadRecord(j["task_id"], files)

\* case "exit": return j / case "skip": return j
ReworkAbandoned(j, files) ==
  j

\* for line in f: a line whose task_id is not the key is loaded and kept.
FixScanLine ==
  /\ mode = "fix" /\ pc = "scan"
  /\ Len(js) < Len(store)
  /\ ~Matches(ScannedRecord, key)
  /\ js' = Append(js, ScannedRecord)
  /\ UNCHANGED <<mode, start, count, key, store, pc, idx, typed, resp, live, ws,
                 error, edits, store0, entry_store, trail>>
  /\ UNCHANGED call

\* A line whose task_id is the key: rework(j) up to its prompt.
ReworkStage ==
  /\ mode = "fix" /\ pc = "scan"
  /\ Len(js) < Len(store)
  /\ Matches(ScannedRecord, key)
  /\ entry_store' = store
  /\ \/ /\ live' = TempDirEnter(live)
        /\ ws' = ReworkFiles(ScannedRecord)
        /\ pc' = "rework"
        /\ UNCHANGED <<error, trail>>
     \/ \E err \in StageErrors :
          Raise(err, TempDirExit(TempDirEnter(live)))
  /\ UNCHANGED <<mode, start, count, key, store, idx, typed, resp, js, edits,
                 store0>>
  /\ UNCHANGED call

\* "exit" or "skip" at the prompt of rework: j is returned as it was loaded,
\* the with block is left and the scan of fix goes on.
ReworkReturn ==
  /\ mode = "fix" /\ pc = "rework"
  /\ \E inp \in Inputs :
       /\ Strip(inp) \in {CmdExit, CmdSkip}
       /\ typed' = inp
       /\ resp' = Strip(inp)
       /\ trail' = Append(trail,
            Event(IF Strip(inp) = CmdExit THEN "exit" ELSE "skip", NoFiles))
  /\ js' = Append(js, ReworkAbandoned(ScannedRecord, ws))
  /\ live' = TempDirExit(live)
  /\ ws' = NoFiles
  /\ pc' = "scan"
  /\ UNCHANGED <<mode, start, count, key, store, idx, error, edits, store0,
                 entry_store>>
  /\ UNCHANGED call

\* Mutation of ReworkContinue: the reworked record is also written over its
\* line of the file at once.
ReworkContinueWritesThrough ==
  /\ mode = "fix" /\ pc = "rework"
  /\ \E inp \in Inputs :
       /\ Strip(inp) = CmdContinue
       /\ typed' = inp
       /\ resp' = Strip(inp)
       /\ \/ /\ js' = Append(js, ReworkedRecord(ScannedRecord, ws))
             /\ store' = [store EXCEPT ![Len(js) + 1] =
                            dumps(ReworkedRecord(ScannedRecord, ws))]
             /\ live' = TempDirExit(live)
             /\ ws' = NoFiles
             /\ pc' = "scan"
             /\ trail' = Append(trail,
                  Event("continue", FormatFiles(ws, ReworkFormatted)))
             /\ UNCHANGED error
          \/ /\ \E err \in StageErrors : Raise(err, TempDirExit(live))
             /\ UNCHANGED <<js, store>>
  /\ UNCHANGED <<mode, start, count, key, idx, edits, store0, entry_store>>
  /\ UNCHANGED call

\* "" at the prompt of rework: the six files are formatted, the nine are
\* read back, the new dict takes the place of j.
ReworkContinue ==
  /\ mode = "fix" /\ pc = "rework"
  /\ \E inp \in Inputs :
       /\ Strip(inp) = CmdContinue
       /\ typed' = inp
       /\ resp' = Strip(inp)
       /\ \/ /\ js' = Append(js, ReworkedRecord(ScannedRecord, ws))
             /\ live' = TempDirExit(live)
             /\ ws' = NoFiles
             /\ pc' = "scan"
             /\ trail' = Append(trail,
                  Event("continue", FormatFiles(ws, ReworkFormatted)))
             /\ UNCHANGED error
          \/ /\ \E err \in StageErrors : Raise(err, TempDirExit(live))
             /\ UNCHANGED js
  /\ UNCHANGED <<mode, start, count, key, store, idx, edits, store0,
                 entry_store>>
  /\ UNCHANGED call

\* Mutation of OpenWrite: the file is opened without being truncated.
OpenWriteKeeps(lines) ==
  lines

\* open(jsonl, "w"): the lines the file holds once it is open for writing
OpenWrite(lines) ==
  <<>>

\* with open(jsonl, "w") as f: the scan is over and the file is truncated.
FixTruncate ==
  /\ mode = "fix" /\ pc = "scan"
  /\ Len(js) = Len(store)
  /\ store' = OpenWrite(store)
  /\ pc' = "rewrite"
  /\ UNCHANGED <<mode, start, count, key, idx, typed, resp, live, ws, js, error,
                 edits, store0, entry_store, trail>>
  /\ UNCHANGED call

\* for j in js: print(json.dumps(j, sort_keys=True), file=f, flush=True)
FixWriteLine ==
  /\ mode = "fix" /\ pc = "rewrite"
  /\ Len(store) < Len(js)
  /\ store' = AppendLine(store, js[Len(store) + 1])
  /\ UNCHANGED <<mode, start, count, key, pc, idx, typed, resp, live, ws, js,
                 error, edits, store0, entry_store, trail>>
  /\ UNCHANGED call

\* Every record is written: the file is closed, fix and main return.
FixReturn ==
  /\ mode = "fix" /\ pc = "rewrite"
  /\ Len(store) = Len(js)
  /\ pc' = "done"
  /\ UNCHANGED <<mode, start, count, key, store, idx, typed, resp, live, ws, js,
                 error, edits, store0, entry_store, trail>>
  /\ UNCHANGED call

Next ==
  \/ OperatorEdit
  \/ PromptInvalid
  \/ PromptEOF
  \/ ConvertOpen
  \/ GenLoopReturn
  \/ GenLoopIndexError
  \/ GenLoopFilter
  \/ FixupStage
  \/ PromptExit
  \/ PromptSkip
  \/ FixupContinue
  \/ BaseContinue
  \/ VariantsContinue
  \/ FixScanLine
  \/ ReworkStage
  \/ ReworkReturn
  \/ ReworkContinue
  \/ FixTruncate
  \/ FixWriteLine
  \/ FixReturn

Spec ==
  Init /\ [][Next]_vars

(***************************************************************************)
(* The process does not get to end by itself: it is killed, or the machine *)
(* goes down, between two of the steps above.  Nothing is cleaned up and   *)
(* nothing more is written; the files are as the last step left them.      *)
(***************************************************************************)
Kill ==
  /\ pc # "done"
  /\ error' = "Killed"
  /\ pc' = "done"
  /\ trail' = Append(trail, Event("killed", NoFiles))
  /\ UNCHANGED <<mode, start, count, key, store, idx, typed, resp, live, ws, js,
                 edits, store0, entry_store>>
  /\ UNCHANGED call

NextKill ==
  \/ Next
  \/ Kill

SpecKill ==
  Init /\ [][NextKill]_vars

(***************************************************************************)
(* strip_code and add_std called on their own, on any text made of a few   *)
(* pieces: the two directives, two words of the vocabulary, a letter, a    *)
(* bracket, a blank and a line break.                                      *)
(***************************************************************************)
MaxTokens ==
  3

TextTokens ==
  {HashInclude, UsingNamespace, WordMap, WordString, <<"x">>, <<"<">>,
   <<" ">>, <<"\n">>}

RECURSIVE Concat(_)
Concat(ts) ==
  IF ts = <<>> THEN <<>> ELSE Head(ts) \o Concat(Tail(ts))

Texts ==
  {Concat(ts) : ts \in UNION {[1..n -> TextTokens] : n \in 0..MaxTokens}}

InitText ==
  /\ call \in [fn : {"strip_code", "add_std"}, code : Texts,
                returned : {FALSE}, ret : {<<>>}]
  /\ mode = "none"
  /\ start = 0
  /\ count = 0
  /\ key = <<>>
  /\ store = <<>>
  /\ pc = "done"
  /\ idx = 0
  /\ typed = NoResp
  /\ resp = NoResp
  /\ live = 0
  /\ ws = NoFiles
  /\ js = <<>>
  /\ error = "none"
  /\ edits = 0
  /\ store0 = <<>>
  /\ entry_store = <<>>
  /\ trail = <<>>

\* code = strip_code(code)
CallStripCode ==
  /\ call.fn = "strip_code" /\ ~call.returned
  /\ call' = [call EXCEPT !.returned = TRUE, !.ret = strip_code(call.code)]
  /\ UNCHANGED <<mode, start, count, key, store, pc, idx, typed, resp, live, ws,
                 js, error, edits, store0, entry_store, trail>>

\* code = add_std(code)
CallAddStd ==
  /\ call.fn = "add_std" /\ ~call.returned
  /\ call' = [call EXCEPT !.returned = TRUE, !.ret = add_std(call.code)]
  /\ UNCHANGED <<mode, start, count, key, store, pc, idx, typed, resp, live, ws,
                 js, error, edits, store0, entry_store, trail>>

NextText ==
  \/ CallStripCode
  \/ CallAddStd

SpecText ==
  InitText /\ [][NextText]_vars

(***************************************************************************)
(* Vocabulary of the properties.                                           *)
(***************************************************************************)

IsPrefix(a, b) ==
  /\ Len(a) <= Len(b)
  /\ SubSeq(b, 1, Len(a)) = a

\* The positions of the history at which the command `how` was accepted.
Accepted(how) ==
  {n \in DOMAIN trail : trail[n].how = how}

\* The history element n is the "continue" that completes an entry.
Commits(n) ==
  /\ trail[n].how = "continue"
  /\ trail[n].stage \in {"variants", "rework"}

\* The history element n is the one an entry's processing ended with.
EndsEntry(e) ==
  \/ e.how \in {"filtered", "skip", "exit", "error"}
  \/ e.how = "continue" /\ e.stage \in {"variants", "rework"}

\* The task ids of the lines this run appended (convert mode).
AppendedIds ==
  {loads(store[m])["task_id"] : m \in (Len(store0) + 1)..Len(store)}

\* The store holds the same records, field by field and in the same order,
\* as when the process started.
SameRecords ==
  /\ Len(store) = Len(store0)
  /\ \A i \in DOMAIN store0 : loads(store[i]) = loads(store0[i])

\* The key of a fix run is the task_id of no stored record.
KeyMissing ==
  \A i \in DOMAIN store0 : loads(store0[i])["task_id"] # key

\* A step in which input() returned a line and the handling of the line did
\* not die: at a prompt every other step is an operator edit, which counts
\* in edits, or an exception, which sets error.
ReadStep ==
  /\ pc \in PromptPcs
  /\ edits' = edits
  /\ error' = error

\* The stage after pc, when "continue" is accepted there.
StageAfter(p) ==
  CASE p = "fixup" -> "base"
    [] p = "base" -> "variants"
    [] p = "variants" -> "loop"
    [] p = "rework" -> "scan"

\* What the accepted command c does to the stage the prompt belongs to.
CommandOutcome(c) ==
  /\ Len(trail') = Len(trail) + 1
  /\ \/ /\ c = CmdExit
        /\ trail'[Len(trail')].how = "exit"
        /\ pc' = IF mode = "convert" THEN "done" ELSE "scan"
        /\ store' = store
     \/ /\ c = CmdSkip
        /\ trail'[Len(trail')].how = "skip"
        /\ pc' = IF mode = "convert" THEN "loop" ELSE "scan"
        /\ store' = store
     \/ /\ c = CmdContinue
        /\ trail'[Len(trail')].how = "continue"
        /\ pc' = StageAfter(pc)

\* Everything but the line read stays as it was.
NoSideEffect ==
  UNCHANGED <<mode, start, count, key, store, pc, idx, live, ws, js, error,
              edits, store0, entry_store, trail>>

(***************************************************************************)
(* C1.  Convert mode, "exit" while entry k is in progress: the final store *)
(* is the store as it was when entry k was taken up - the lines the file   *)
(* held before the run followed by one line for each entry committed       *)
(* earlier in the run, none of them for entry k - and the process ends     *)
(* with status 0.                                                          *)
(***************************************************************************)
C1_ExitLeavesStore ==
  (mode = "convert" /\ pc = "done" /\ Accepted("exit") # {}) =>
    \A n \in Accepted("exit") :
      /\ store = entry_store
      /\ IsPrefix(store0, store)
      /\ Len(store) = Len(store0) + Cardinality({m \in DOMAIN trail : Commits(m)})
      /\ TaskId(trail[n].at) \notin AppendedIds
      /\ ExitCode = 0

\* Reached: "exit" at the third stage of an entry, after an operator edit,
\* with a record committed earlier in the run and lines from before the run.
C1_Witness ==
  /\ mode = "convert" /\ pc = "done"
  /\ trail # <<>>
  /\ trail[Len(trail)].how = "exit"
  /\ trail[Len(trail)].stage = "variants"
  /\ store0 # <<>>
  /\ Len(store) > Len(store0)
  /\ edits > 0

(***************************************************************************)
(* C2.  Convert mode, "skip" while entry k is in progress: no line for     *)
(* entry k is appended, nothing more happens for entry k (the next thing   *)
(* the loop does, a filtering, a prompt answered or an error, is for       *)
(* k + 1), the loop variable is k + 1 until then, and the loop only ends   *)
(* there when k + 1 is outside the range.                                  *)
(***************************************************************************)
C2_SkipGoesToNext ==
  mode = "convert" =>
    \A n \in Accepted("skip") :
      /\ TaskId(trail[n].at) \notin AppendedIds
      /\ \A m \in DOMAIN trail : m > n => trail[m].at > trail[n].at
      /\ n < Len(trail) => trail[n + 1].at = trail[n].at + 1
      /\ n = Len(trail) =>
           /\ idx = trail[n].at + 1
           /\ pc \in {"loop", "done"} \/ (pc = "fixup" /\ live = 1)
           /\ pc = "done" => idx >= Stop

\* Reached: "skip" at the second stage of an entry, and the next entry taken
\* up and answered.
C2_Witness ==
  /\ mode = "convert"
  /\ \E n \in Accepted("skip") :
       /\ trail[n].stage = "base"
       /\ n < Len(trail)
       /\ trail[n + 1].how = "continue"
       /\ trail[n + 1].at = trail[n].at + 1

(***************************************************************************)
(* C3, as claimed.  A line that is not literally "", "skip" or "exit"     *)
(* only causes a re-prompt.                                                *)
(***************************************************************************)
C3_OnlyLiteralCommands ==
  [][(ReadStep /\ typed' \notin COMMANDS) => NoSideEffect]_vars

(***************************************************************************)
(* C3, amended.  The line is stripped of leading and trailing whitespace   *)
(* before it is compared: a line whose stripped form is none of "",        *)
(* "skip", "exit" only causes a re-prompt and leaves the stage, the        *)
(* workspace files and the store as they were; a line whose stripped form  *)
(* is one of the three has the outcome of that command.                    *)
(***************************************************************************)
C3_StrippedCommands ==
  [][ReadStep =>
       /\ resp' = Strip(typed')
       /\ IF Strip(typed') \in COMMANDS
            THEN CommandOutcome(Strip(typed'))
            ELSE NoSideEffect]_vars

\* Reached: at the third stage, after an edit, a line that is no command was
\* read and the stage is still waiting.
C3_Witness ==
  /\ pc = "variants"
  /\ typed = InOther
  /\ resp = InOther
  /\ live = 1
  /\ edits > 0

(***************************************************************************)
(* C4.  The temporary directory of an entry exists exactly while one of    *)
(* its prompts is blocked: whenever the process is anywhere else - between *)
(* entries, rewriting the store, or ended, by return or by an exception -  *)
(* no directory and no artifact file exists; never more than one exists.   *)
(***************************************************************************)
C4_WorkspaceReleased ==
  /\ live \in {0, 1}
  /\ pc \in PromptPcs => live = 1
  /\ pc \notin PromptPcs => (live = 0 /\ ws = NoFiles)

\* Reached: a fix run that died of a formatter failure after the operator
\* had edited a file and answered "continue".
C4_Witness ==
  /\ mode = "fix" /\ pc = "done"
  /\ error = "CalledProcessError"
  /\ resp = CmdContinue
  /\ edits > 0
  /\ live = 0

(***************************************************************************)
(* C5, as claimed.  Once "exit" was entered nothing more is taken up: the  *)
(* "exit" is the last element of the history, no prompt is blocked and no  *)
(* directory exists, and the process ends with status 0.                   *)
(***************************************************************************)
C5_ExitEndsSession ==
  \A n \in Accepted("exit") :
    /\ n = Len(trail)
    /\ pc \notin PromptPcs
    /\ live = 0
    /\ pc = "done" => ExitCode = 0

(***************************************************************************)
(* C6, as claimed.  One fix run takes up at most one store line (one       *)
(* directory, one prompt cycle), exactly one when it ends normally and the *)
(* key is in the store, and the rewritten store differs from the old one   *)
(* in at most one record.  Stated of the runs in which "exit" was never    *)
(* typed, so that what "exit" does in fix mode plays no part.              *)
(***************************************************************************)
C6_ReworksOneRecord ==
  (mode = "fix" /\ Accepted("exit") = {}) =>
    LET taken == {trail[n].at : n \in DOMAIN trail}
                   \cup (IF pc = "rework" THEN {Current} ELSE {})
    IN  /\ Cardinality(taken) <= 1
        /\ (pc = "done" /\ error = "none") =>
             /\ ~KeyMissing => Cardinality(taken) = 1
             /\ Cardinality({i \in DOMAIN store :
                               loads(store[i]) # loads(store0[i])}) <= 1

(***************************************************************************)
(* C7.  Fix mode with a key no stored record has: no directory is made, no *)
(* line is read from the operator, and when the run has ended the store    *)
(* holds the same records, field by field and in the same order; the       *)
(* status is 0.                                                            *)
(***************************************************************************)
C7_MissingKeyPassThrough ==
  (mode = "fix" /\ KeyMissing) =>
    /\ live = 0
    /\ pc \notin PromptPcs
    /\ trail = <<>>
    /\ typed = NoResp
    /\ pc = "done" => (ExitCode = 0 /\ SameRecords)

\* Reached: the run has ended on a store with a line another tool wrote; the
\* file is not the same text, the records are the same.
C7_Witness ==
  /\ mode = "fix" /\ KeyMissing
  /\ pc = "done"
  /\ store0 = StoreUnique
  /\ store # store0

(***************************************************************************)
(* C8.  Fix mode, "skip" or "exit" at the prompt of a record: when the     *)
(* run has ended the store has as many records as before and the record at *)
(* that position has the field values it had, whatever was edited; when    *)
(* every prompt of the run was answered so, the store holds the same       *)
(* records in the same order.                                              *)
(***************************************************************************)
C8_AbandonKeepsRecord ==
  (mode = "fix" /\ pc = "done" /\ error = "none") =>
    /\ Len(store) = Len(store0)
    /\ \A n \in Accepted("skip") \cup Accepted("exit") :
         loads(store[trail[n].at]) = loads(store0[trail[n].at])
    /\ Accepted("continue") = {} => SameRecords

\* Reached: one record matched, the operator edited a file and then typed
\* "skip"; the store was rewritten.
C8_Witness ==
  /\ mode = "fix" /\ pc = "done" /\ error = "none"
  /\ store0 = StoreUnique
  /\ key = TaskId(0)
  /\ edits > 0
  /\ Len(trail) = 1
  /\ trail[1].how = "skip"

(***************************************************************************)
(* C9.  Fix mode, a run that has ended normally: the store has as many     *)
(* records as before, in the same order; a record whose task_id is not the *)
(* key is unchanged; a record answered with "continue" has its old         *)
(* task_id, and its nine other fields are the contents the nine files had  *)
(* when the directory was removed - and it has no other field.             *)
(***************************************************************************)
C9_ContinueReplacesInPlace ==
  (mode = "fix" /\ pc = "done" /\ error = "none") =>
    /\ Len(store) = Len(store0)
    /\ \A i \in DOMAIN store0 :
         loads(store0[i])["task_id"] # key => loads(store[i]) = loads(store0[i])
    /\ \A n \in Accepted("continue") :
         /\ trail[n].at \in DOMAIN store0
         /\ loads(store0[trail[n].at])["task_id"] = key
         /\ loads(store[trail[n].at]) =
              ReadRecord(loads(store0[trail[n].at])["task_id"], trail[n].files)

\* Reached: the third line of a store was reworked after two edits and
\* differs from what it was.
C9_Witness ==
  /\ mode = "fix" /\ pc = "done" /\ error = "none"
  /\ store0 = StoreRepeated
  /\ edits > 0
  /\ \E n \in Accepted("continue") :
       /\ trail[n].at = 3
       /\ loads(store[3]) # loads(store0[3])
       /\ loads(store[3])["starter_code"] = Format(EditText)

(***************************************************************************)
(* C10, as claimed.  A convert run that no "exit" and no exception cut     *)
(* short has taken up exactly the corpus indices i, 0 <= i < len(hep),     *)
(* with start <= i < start + count, in ascending order, each once.         *)
(***************************************************************************)
C10_VisitsClampedRange ==
  (mode = "convert" /\ pc = "done" /\ error = "none" /\ Accepted("exit") = {}) =>
    LET ended == SelectSeq(trail, EndsEntry)
        lo == IF start < 0 THEN 0 ELSE start
        hi == Min(HepLen, start + count)
        n == IF hi > lo THEN hi - lo ELSE 0
    IN  [m \in 1..Len(ended) |-> ended[m].at] = [m \in 1..n |-> lo + m - 1]

(***************************************************************************)
(* C11.  When the loop of a convert run takes up a corpus entry, the entry *)
(* is passed over exactly when "boost/any.hpp" or "openssl/md5.h" occurs   *)
(* in its declaration followed by its canonical solution, or in its test.  *)
(* Passing over makes no directory, writes and formats no file, reads no   *)
(* line, leaves the store alone and takes the loop to the next index; an   *)
(* entry with neither text is never passed over: a directory is made for   *)
(* it (or making it fails).                                                *)
(***************************************************************************)
Disallowed(doc) ==
  \/ Contains(doc.declaration \o doc.canonical_solution, BoostAny)
  \/ Contains(doc.declaration \o doc.canonical_solution, OpensslMd5)
  \/ Contains(doc.test, BoostAny)
  \/ Contains(doc.test, OpensslMd5)

TakesUpEntry ==
  mode = "convert" /\ pc = "loop" /\ idx < Stop /\ idx \in ValidIndex

C11_FilterIffDisallowed ==
  [][TakesUpEntry =>
       IF Disallowed(HepAt(idx))
       THEN /\ pc' = "loop" /\ idx' = idx + 1
            /\ live = 0 /\ live' = 0 /\ ws' = NoFiles
            /\ store' = store
            /\ typed' = typed /\ resp' = resp
            /\ error' = "none"
            /\ trail' = Append(trail,
                 [at |-> idx, stage |-> "loop", how |-> "filtered",
                  files |-> NoFiles])
       ELSE /\ idx' = idx
            /\ \/ pc' = "fixup" /\ live' = 1 /\ "starter.cpp" \in DOMAIN ws'
               \/ pc' = "done" /\ error' \in StageErrors
    ]_vars

\* Reached: entry 1, whose declaration and solution are clean and whose test
\* names openssl/md5.h, was passed over and the loop stands at entry 2.
C11_Witness ==
  /\ mode = "convert" /\ pc = "loop" /\ idx = 2 /\ live = 0
  /\ trail # <<>>
  /\ trail[Len(trail)].how = "filtered"
  /\ trail[Len(trail)].at = 1
  /\ ~Contains(EntryCode(HepAt(1)), OpensslMd5)
  /\ Contains(HepAt(1).test, OpensslMd5)
  /\ store = store0

(***************************************************************************)
(* C12.  Convert mode, a formatter call of entry k exits non-zero, at      *)
(* whichever stage: the process is over at once with a non-zero status,    *)
(* the failure is the last thing that happened and it happened once, for   *)
(* entry k (no prompt, no later entry, no second attempt follows), no line *)
(* for entry k was appended, the store is what it was when entry k was     *)
(* taken up, which starts with the lines of before the run, and the        *)
(* directory of entry k is gone.  Nothing is done after a failure.         *)
(***************************************************************************)
FormatterFailed ==
  mode = "convert" /\ error = "CalledProcessError"

C12_FormatterFailureFatal ==
  /\ [](FormatterFailed =>
          /\ pc = "done"
          /\ ExitCode # 0
          /\ live = 0 /\ ws = NoFiles
          /\ store = entry_store
          /\ IsPrefix(store0, store)
          /\ TaskId(idx) \notin AppendedIds
          /\ Accepted("error") = {Len(trail)}
          /\ trail[Len(trail)].at = idx
          /\ trail[Len(trail)].stage \in {"loop", "fixup", "base", "variants"}
          /\ \A n \in DOMAIN trail : trail[n].at <= idx)
  /\ [][~FormatterFailed]_vars

\* Reached: the formatter failed at the third stage of an entry after an
\* earlier entry of the run was committed; the committed line is in the store.
C12_Witness ==
  /\ FormatterFailed
  /\ trail[Len(trail)].stage = "variants"
  /\ \E n \in Accepted("continue") : Commits(n) /\ trail[n].at < idx
  /\ Len(store) = Len(store0) + 1
  /\ store0 # <<>>

(***************************************************************************)
(* C13.  Convert mode, in every state a run can be in, a killed or failed  *)
(* run included: the store is the lines it had when the run started, then  *)
(* one line for each entry committed so far, in the order of the commits,  *)
(* each the whole record of that entry (all ten fields, as read from the   *)
(* files at the commit); and no step takes away or changes a line that is  *)
(* in the store.                                                           *)
(***************************************************************************)
RecordKeys ==
  {"task_id", "base_prompt", "sfinae_prompt", "concepts_prompt",
   "starter_code", "base_canonical_solution", "sfinae_canonical_solution",
   "concepts_canonical_solution", "tests", "invalids"}

IsCommit(e) ==
  e.how = "continue" /\ e.stage = "variants"

CommittedLines ==
  LET commits == SelectSeq(trail, IsCommit)
  IN  [m \in 1..Len(commits) |->
         dumps(ReadRecord(TaskId(commits[m].at), commits[m].files))]

C13_AppendOnlyCheckpoints ==
  /\ [](mode = "convert" =>
          /\ store = store0 \o CommittedLines
          /\ \A m \in (Len(store0) + 1)..Len(store) :
               {store[m][f][1] : f \in DOMAIN store[m]} = RecordKeys)
  /\ [][mode = "convert" => IsPrefix(store, store')]_vars

\* Reached: a run that started on a store with lines was killed at a prompt,
\* its directory still there, after it had committed an entry.
C13_Witness ==
  /\ mode = "convert" /\ error = "Killed"
  /\ live = 1 /\ trail[Len(trail)].stage \in PromptPcs
  /\ store0 # <<>>
  /\ Len(store) = Len(store0) + 1
  /\ SubSeq(store, 1, Len(store0)) = store0

(***************************************************************************)
(* C14, as claimed.  add_std returns its argument with "std::" put before  *)
(* every occurrence of string, vector, map or abs that stands alone - the  *)
(* character before it, if there is one, and the character after it, if    *)
(* there is one, are not identifier characters - the occurrences at the    *)
(* end of the text and those one character after another word included,    *)
(* and with nothing else changed (an occurrence inside a longer identifier *)
(* stays as it is).                                                        *)
(***************************************************************************)
StandaloneAt(text, p) ==
  {w \in StdVocabulary :
     /\ p + Len(w) - 1 <= Len(text)
     /\ SubSeq(text, p, p + Len(w) - 1) = w
     /\ p = 1 \/ text[p - 1] \notin WordChars
     /\ p + Len(w) > Len(text) \/ text[p + Len(w)] \notin WordChars}

RECURSIVE QualifiedFrom(_, _)
QualifiedFrom(text, p) ==
  IF p > Len(text) THEN <<>>
  ELSE IF StandaloneAt(text, p) # {}
    THEN LET w == CHOOSE x \in StandaloneAt(text, p) : TRUE
         IN  StdPrefix \o w \o QualifiedFrom(text, p + Len(w))
    ELSE <<text[p]>> \o QualifiedFrom(text, p + 1)

C14_QualifiesEveryStandalone ==
  (call.fn = "add_std" /\ call.returned) =>
    call.ret = QualifiedFrom(call.code, 1)

(***************************************************************************)
(* C15, as claimed.  The lines of what strip_code returns are the lines of *)
(* its argument that do not begin with "using namespace" or "#include",    *)
(* each as it was and in the same order: none of these is missing and no   *)
(* line that begins with one of the two is among them.                     *)
(***************************************************************************)
IsDirective(line) ==
  \/ Len(line) >= Len(UsingNamespace)
     /\ SubSeq(line, 1, Len(UsingNamespace)) = UsingNamespace
  \/ Len(line) >= Len(HashInclude)
     /\ SubSeq(line, 1, Len(HashInclude)) = HashInclude

IsNoDirective(line) ==
  ~IsDirective(line)

OtherLines(text) ==
  SelectSeq(SplitLines(text), IsNoDirective)

C15_KeepsExactlyOtherLines ==
  (call.fn = "strip_code" /\ call.returned) =>
    SplitLines(call.ret) = OtherLines(call.code)

(***************************************************************************)
(* C15, amended.  The same, except for an empty line that is the last of   *)
(* the lines kept: the lines kept are joined with "\n" and no line break   *)
(* follows the last one, so the returned text does not have that line.     *)
(* What is returned is these lines joined, whatever line break separated   *)
(* them in the argument.                                                   *)
(***************************************************************************)
DropLastIfEmpty(lines) ==
  IF lines # <<>> /\ lines[Len(lines)] = <<>>
  THEN SubSeq(lines, 1, Len(lines) - 1)
  ELSE lines

C15_KeepsOtherLinesButLastEmpty ==
  (call.fn = "strip_code" /\ call.returned) =>
    /\ SplitLines(call.ret) = DropLastIfEmpty(OtherLines(call.code))
    /\ \A n \in DOMAIN SplitLines(call.ret) :
         ~IsDirective(SplitLines(call.ret)[n])
    /\ Len(call.ret) <= Len(call.code)

\* Reached: of two lines the first, which begins with a directive, was
\* removed and the second is what was returned.
C15_Witness ==
  /\ call.fn = "strip_code" /\ call.returned
  /\ Len(SplitLines(call.code)) = 2
  /\ IsDirective(SplitLines(call.code)[1])
  /\ SplitLines(call.ret) = <<SplitLines(call.code)[2]>>
  /\ call.ret # <<>>

(***************************************************************************)
(* C16.  Convert mode, the commands accepted for an entry k, in the order  *)
(* they were accepted: the m-th was accepted at the m-th of the stages     *)
(* fixup, base, variants, so there are at most three and one for a stage,  *)
(* and all but the last are "continue"; while a prompt of entry k is       *)
(* blocked, the stages before it are the ones answered.  The run has       *)
(* appended a line with the task id "HEP/k" if and only if there are       *)
(* three and the third is "continue" too; it is then one line, and the     *)
(* record it holds has that task id and, in its nine other fields, the     *)
(* text of the nine files as they were when the record was built.  (A      *)
(* "continue" whose formatter calls fail is the failure of C12: the run    *)
(* ends there and the command does not count as accepted.)                 *)
(***************************************************************************)
StageOrder ==
  <<"fixup", "base", "variants">>

AnswersOf(k) ==
  LET IsAnswer(e) == e.at = k /\ e.how \in {"continue", "skip", "exit"}
  IN  SelectSeq(trail, IsAnswer)

LinesOf(k) ==
  {m \in (Len(store0) + 1)..Len(store) :
     loads(store[m])["task_id"] = TaskId(k)}

C16_RecordIffThreeContinues ==
  mode = "convert" =>
    \A k \in {trail[n].at : n \in DOMAIN trail} \cup {idx} :
      LET ans == AnswersOf(k)
      IN  /\ Len(ans) <= 3
          /\ \A m \in DOMAIN ans :
               /\ ans[m].stage = StageOrder[m]
               /\ m < Len(ans) => ans[m].how = "continue"
          /\ (k = idx /\ pc \in {"fixup", "base", "variants"}) =>
               /\ Len(ans) < 3
               /\ pc = StageOrder[Len(ans) + 1]
               /\ \A m \in DOMAIN ans : ans[m].how = "continue"
          /\ IF Len(ans) = 3 /\ ans[3].how = "continue"
             THEN /\ Cardinality(LinesOf(k)) = 1
                  /\ \A m \in LinesOf(k) :
                       /\ DOMAIN loads(store[m]) = RecordKeys
                       /\ loads(store[m]) = ReadRecord(TaskId(k), ans[3].files)
             ELSE LinesOf(k) = {}

\* Reached: entry 0 was given up at its third stage and has no line, entry 2
\* was continued three times after an edit and has the one line appended.
C16_Witness ==
  /\ mode = "convert" /\ pc = "done" /\ error = "none"
  /\ Len(AnswersOf(0)) = 3 /\ AnswersOf(0)[3].how = "skip"
  /\ Len(AnswersOf(2)) = 3 /\ AnswersOf(2)[3].how = "continue"
  /\ edits > 0
  /\ Len(store) = Len(store0) + 1
  /\ loads(store[Len(store)])["task_id"] = TaskId(2)
  /\ loads(store[Len(store)])["sfinae_canonical_solution"] = Format(EditText)

(***************************************************************************)
(* C17.  Convert mode.  When "continue" is accepted at the fixup stage,    *)
(* base.cpp is written with the text starter.cpp is read back with: the    *)
(* file as the operator left it, formatted.  When "continue" is accepted   *)
(* at the base stage, sfinae.cpp and concepts.cpp are both written with    *)
(* the text base.cpp is read back with in the same way.  The corpus entry  *)
(* is not read again for them.                                             *)
(***************************************************************************)
C17_SeedsFromPrecedingStage ==
  [][/\ (mode = "convert" /\ pc = "fixup" /\ pc' = "base") =>
          /\ ws'["starter.cpp"] = Format(ws["starter.cpp"])
          /\ ws'["base.cpp"] = ws'["starter.cpp"]
     /\ (mode = "convert" /\ pc = "base" /\ pc' = "variants") =>
          /\ ws'["base.cpp"] = Format(ws["base.cpp"])
          /\ ws'["sfinae.cpp"] = ws'["base.cpp"]
          /\ ws'["concepts.cpp"] = ws'["base.cpp"]
          /\ ws'["starter.cpp"] = ws["starter.cpp"]
    ]_vars

\* Reached: the variants stage of entry 0 after the starter was edited at
\* the first prompt and the base at the second; the variants are seeded with
\* the edited base, which is not the normalized source of the entry.
C17_Witness ==
  /\ mode = "convert" /\ pc = "variants" /\ idx = 0
  /\ edits = 2
  /\ ws["starter.cpp"] = Format(EditText)
  /\ ws["base.cpp"] = Format(EditText)
  /\ ws["sfinae.cpp"] = Format(EditText)
  /\ ws["concepts.cpp"] = Format(EditText)
  /\ Format(EditText) # FixupFiles(HepAt(0))["starter.cpp"]
  /\ Format(EditText) # EntryCode(HepAt(0))

(***************************************************************************)
(* C18, as claimed.  Every line a convert run has appended holds, in each  *)
(* of its six code fields, text as the formatter leaves it, whatever the   *)
(* operator saved in the files while a prompt was blocked.                 *)
(***************************************************************************)
CodeFields ==
  {"starter_code", "base_canonical_solution", "sfinae_canonical_solution",
   "concepts_canonical_solution", "tests", "invalids"}

C18_CodeFieldsFormatted ==
  mode = "convert" =>
    \A m \in (Len(store0) + 1)..Len(store) :
      \A f \in CodeFields :
        loads(store[m])[f] = Format(loads(store[m])[f])

(***************************************************************************)
(* C19.  Fix mode, a killed run included.  Until the file is opened for    *)
(* writing it is what it was when the run started.  From then on it is a   *)
(* prefix of the lines the run is to write, one for each line it had: it   *)
(* is cut to nothing and grows by one record at a time, so a run killed    *)
(* before the last record is written leaves fewer records than there were. *)
(* A run that ends by itself leaves all of them.                           *)
(***************************************************************************)
IntendedLines ==
  [i \in DOMAIN js |-> dumps(js[i])]

Rewriting ==
  \/ pc = "rewrite"
  \/ error = "Killed" /\ trail[Len(trail)].stage = "rewrite"
  \/ pc = "done" /\ error = "none"

C19_RewriteNotAtomic ==
  mode = "fix" =>
    /\ ~Rewriting => store = store0
    /\ Rewriting =>
         /\ Len(js) = Len(store0)
         /\ IsPrefix(store, IntendedLines)
    /\ (pc = "done" /\ error = "none") => store = IntendedLines

\* Reached: a run killed after it wrote the first of three records; the file
\* holds one record where it held three.
C19_Witness ==
  /\ mode = "fix" /\ error = "Killed"
  /\ trail[Len(trail)].stage = "rewrite"
  /\ Len(store0) = 3
  /\ Len(store) = 1
  /\ store = SubSeq(IntendedLines, 1, 1)
  /\ store # IntendedLines

(***************************************************************************)
(* C20.  Fix mode.  While the lines are scanned and the matching records   *)
(* reworked, the file is what it was when the run started.  A formatter    *)
(* call that exits non-zero, or a file or directory operation that fails,  *)
(* before or after the prompt of rework, ends the run at once with a       *)
(* non-zero status, the directory removed and the file still as it was,    *)
(* line for line, whatever was reworked before.                            *)
(***************************************************************************)
C20_FixFailureLeavesStore ==
  mode = "fix" =>
    /\ pc \in {"scan", "rework"} => store = store0
    /\ error \in StageErrors =>
         /\ pc = "done"
         /\ ExitCode # 0
         /\ store = store0
         /\ live = 0 /\ ws = NoFiles
         /\ trail[Len(trail)].how = "error"
         /\ trail[Len(trail)].stage \in {"scan", "rework"}

\* Reached: the first record of the key was reworked and differs from its
\* line, then a formatter call failed after the prompt of the second one.
C20_Witness ==
  /\ mode = "fix" /\ error = "CalledProcessError"
  /\ store0 = StoreRepeated
  /\ trail[Len(trail)].stage = "rework"
  /\ trail[Len(trail)].at = 3
  /\ Len(js) = 2
  /\ js[1] # loads(store0[1])
  /\ store = store0

=============================================================================
